---- MODULE Spec2Model ----
(***************************************************************************)
(* Model of module/index.js: doItNow validates the caller's options and    *)
(* chains three HTTP requests (OAuth token, destination configuration,     *)
(* proxied call).  Every invocation is a promise chain; the callbacks the  *)
(* `request` library calls on completion are the steps of the model.       *)
(***************************************************************************)
EXTENDS Integers, Sequences, FiniteSets, TLC

VARIABLES
    httpMethodsEnum,  \* the object require('http-methods-enum') returned
    inv,              \* invocation id -> the state of that doItNow call
    inflight          \* requests handed to `request` whose callback has not run

vars == <<httpMethodsEnum, inv, inflight>>

(***************************************************************************)
(* Bounds of the model.                                                    *)
(***************************************************************************)
NumInv == 2

(***************************************************************************)
(* JavaScript values.  Strings are TLA+ strings; the value undefined of a  *)
(* string-typed slot is Undefined (a template literal prints it as         *)
(* "undefined"); null and objects are records.                             *)
(***************************************************************************)
Undefined == "undefined"

JSNull == [jsnull |-> TRUE]

IsNull(o) == o = JSNull

\* !!x for a string-typed slot
Truthy(s) == s # "" /\ s # Undefined

\* o.f for an object o: undefined when o has no property f
Prop(o, f) == IF f \in DOMAIN o THEN o[f] ELSE Undefined

\* Object.prototype.hasOwnProperty
hasOwnProperty(o, f) == f \in DOMAIN o

(***************************************************************************)
(* require('http-methods-enum'): the enum the module's default export      *)
(* holds, and the two shapes the module object can have: the enum under    *)
(* `default` only, or under `default` with its members repeated on the     *)
(* module object itself.                                                   *)
(***************************************************************************)
HTTPMethod ==
    [GET |-> "GET", POST |-> "POST", PUT |-> "PUT", PATCH |-> "PATCH",
     DELETE |-> "DELETE", HEAD |-> "HEAD", OPTIONS |-> "OPTIONS"]

EnumModuleDefaultOnly == [default |-> HTTPMethod]

EnumModuleWithMembers ==
    [default |-> HTTPMethod,
     GET |-> "GET", POST |-> "POST", PUT |-> "PUT", PATCH |-> "PATCH",
     DELETE |-> "DELETE", HEAD |-> "HEAD", OPTIONS |-> "OPTIONS"]

EnumModules == {EnumModuleDefaultOnly, EnumModuleWithMembers}

\* JSON.stringify(httpMethodsEnum)
JSONStringifyEnum(m) ==
    LET members == "\"GET\":\"GET\",\"POST\":\"POST\",\"PUT\":\"PUT\",\"PATCH\":\"PATCH\",\"DELETE\":\"DELETE\",\"HEAD\":\"HEAD\",\"OPTIONS\":\"OPTIONS\""
    IN  IF hasOwnProperty(m, "POST")
        THEN "{\"default\":{" \o members \o "}," \o members \o "}"
        ELSE "{\"default\":{" \o members \o "}}"

(***************************************************************************)
(* Errors and rejection reasons.                                           *)
(***************************************************************************)
NoError == [type |-> "null"]

Error(msg) == [type |-> "Error", message |-> msg]

TypeError(msg) == [type |-> "TypeError", message |-> msg]

SyntaxError(msg) == [type |-> "SyntaxError", message |-> msg]

\* a promise rejected with a plain string
StringReason(s) == [type |-> "string", message |-> s]

NoReason == [type |-> "none"]

(***************************************************************************)
(* cfenv: the services bound to the application, by instance name.         *)
(***************************************************************************)
VcapServices ==
    [x \in {"dest-svc"} |->
        [name |-> "dest-svc",
         credentials |->
            [clientid |-> "cid", clientsecret |-> "sec",
             url |-> "https://auth.example.com",
             uri |-> "https://destsvc.example.com"]]]

\* cfenv.getAppEnv(...).getService(name): the service, or null
getService(sDestinationInstance) ==
    IF sDestinationInstance \in DOMAIN VcapServices
    THEN VcapServices[sDestinationInstance]
    ELSE JSNull

\* Buffer.from(s).toString('base64'), on the credentials of the bindings
Base64(s) ==
    CASE s = "cid:sec" -> "Y2lkOnNlYw=="

(***************************************************************************)
(* JSON.parse on the bodies the endpoints of the model return.  A body     *)
(* that is not JSON makes it throw a SyntaxError.                          *)
(***************************************************************************)
TokenBodyA == "{\"access_token\":\"tok123\"}"

TokenBodyB == "{\"access_token\":\"tokXYZ\"}"

EmptyObjectBody == "{}"

NullBody == "null"

NotJSONBody == "<html>Bad Gateway</html>"

DestBodyAuth ==
    "{\"destinationConfiguration\":{\"URL\":\"https://api.example.com\"},\"authTokens\":[{\"type\":\"Bearer\",\"value\":\"abc\"}]}"

DestBodyBasic ==
    "{\"destinationConfiguration\":{\"URL\":\"https://erp.example.com\"},\"authTokens\":[{\"type\":\"Basic\",\"value\":\"dXNlcjpwdw==\"}]}"

DestBodyNoAuth == "{\"destinationConfiguration\":{\"URL\":\"https://api.example.com\"}}"

DestBodyEmptyAuth ==
    "{\"destinationConfiguration\":{\"URL\":\"https://api.example.com\"},\"authTokens\":[]}"

DestBodyNoURL == "{\"destinationConfiguration\":{},\"authTokens\":[{\"type\":\"Bearer\",\"value\":\"abc\"}]}"

EmptyObject == [x \in {} |-> Undefined]

JSONParse(data) ==
    CASE data = TokenBodyA ->
            [threw |-> FALSE, value |-> [access_token |-> "tok123"]]
      [] data = TokenBodyB ->
            [threw |-> FALSE, value |-> [access_token |-> "tokXYZ"]]
      [] data = EmptyObjectBody ->
            [threw |-> FALSE, value |-> EmptyObject]
      [] data = NullBody ->
            [threw |-> FALSE, value |-> JSNull]
      [] data = DestBodyAuth ->
            [threw |-> FALSE,
             value |-> [destinationConfiguration |-> [URL |-> "https://api.example.com"],
                        authTokens |-> <<[type |-> "Bearer", value |-> "abc"]>>]]
      [] data = DestBodyBasic ->
            [threw |-> FALSE,
             value |-> [destinationConfiguration |-> [URL |-> "https://erp.example.com"],
                        authTokens |-> <<[type |-> "Basic", value |-> "dXNlcjpwdw=="]>>]]
      [] data = DestBodyNoAuth ->
            [threw |-> FALSE,
             value |-> [destinationConfiguration |-> [URL |-> "https://api.example.com"]]]
      [] data = DestBodyEmptyAuth ->
            [threw |-> FALSE,
             value |-> [destinationConfiguration |-> [URL |-> "https://api.example.com"],
                        authTokens |-> <<>>]]
      [] data = DestBodyNoURL ->
            [threw |-> FALSE,
             value |-> [destinationConfiguration |-> EmptyObject,
                        authTokens |-> <<[type |-> "Bearer", value |-> "abc"]>>]]
      [] OTHER ->
            [threw |-> TRUE, value |-> JSNull]

(***************************************************************************)
(* The options object handed to request(...).  A key the code does not set *)
(* is Undefined (NoHeaders, NoForm for the object-valued keys).            *)
(***************************************************************************)
NoHeaders == {}

NoForm == <<>>

\* what a request callback does with its promise
Reject(e) == [kind |-> "reject", reason |-> e, value |-> Undefined, parsed |-> FALSE]

Resolve(v, p) == [kind |-> "resolve", reason |-> NoReason, value |-> v, parsed |-> p]

\* an exception thrown inside the callback: neither resolve nor reject runs
Throw(e) == [kind |-> "throw", reason |-> e, value |-> Undefined, parsed |-> TRUE]

(***************************************************************************)
(* getToken                                                                *)
(***************************************************************************)
\* the executor of getToken's promise, up to the call of request(...)
getTokenOptions(sDestinationInstance) ==
    LET oDestinationService == getService(sDestinationInstance)
    IN  IF IsNull(oDestinationService)
        THEN [threw |-> TRUE,
              error |-> TypeError("Cannot read property 'credentials' of null")]
        ELSE
          LET c == oDestinationService.credentials
              sCredentials == c.clientid \o ":" \o c.clientsecret
          IN  [threw |-> FALSE,
               options |->
                 [step |-> "token",
                  url |-> c.url \o "/oauth/token",
                  method |-> "POST",
                  headers |-> {<<"Authorization", "Basic " \o Base64(sCredentials)>>,
                               <<"Content-type", "application/x-www-form-urlencoded">>},
                  form |-> << <<"client_id", c.clientid>>,
                              <<"grant_type", "client_credentials">> >>,
                  payload |-> Undefined]]

\* getTokenCallback without the test of response.statusCode
getTokenCallbackAnyStatus(resp) ==
    IF resp.error # NoError
    THEN Reject(resp.error)
    ELSE LET p == JSONParse(resp.data)
         IN  IF p.threw
             THEN Throw(SyntaxError("Unexpected token in JSON"))
             ELSE IF IsNull(p.value)
             THEN Throw(TypeError("Cannot read property 'access_token' of null"))
             ELSE Resolve(Prop(p.value, "access_token"), TRUE)

\* the callback of getToken's request
getTokenCallback(resp) ==
    IF resp.error # NoError
    THEN Reject(resp.error)
    ELSE IF resp.statusCode = 200
    THEN LET p == JSONParse(resp.data)
         IN  IF p.threw
             THEN Throw(SyntaxError("Unexpected token in JSON"))
             ELSE IF IsNull(p.value)
             THEN Throw(TypeError("Cannot read property 'access_token' of null"))
             ELSE Resolve(Prop(p.value, "access_token"), TRUE)
    ELSE Reject(StringReason("Server responded with status code "
                             \o ToString(resp.statusCode)
                             \o " when requesting the JWT token"))

(***************************************************************************)
(* getDestination                                                          *)
(***************************************************************************)
\* getDestination with a token kept at module level by the first invocation
getDestinationOptionsCachedToken(sToken, sDestinationInstance, sDestinationName) ==
    LET oDestinationService == getService(sDestinationInstance)
        sCached == IF inv[1].sToken # Undefined THEN inv[1].sToken ELSE sToken
    IN  IF IsNull(oDestinationService)
        THEN [threw |-> TRUE,
              error |-> TypeError("Cannot read property 'credentials' of null")]
        ELSE
          [threw |-> FALSE,
           options |->
             [step |-> "destination",
              url |-> oDestinationService.credentials.uri
                      \o "/destination-configuration/v1/destinations/"
                      \o sDestinationName,
              method |-> Undefined,
              headers |-> {<<"Authorization", "Bearer " \o sCached>>},
              form |-> NoForm,
              payload |-> Undefined]]

getDestinationOptions(sToken, sDestinationInstance, sDestinationName) ==
    LET oDestinationService == getService(sDestinationInstance)
    IN  IF IsNull(oDestinationService)
        THEN [threw |-> TRUE,
              error |-> TypeError("Cannot read property 'credentials' of null")]
        ELSE
          [threw |-> FALSE,
           options |->
             [step |-> "destination",
              url |-> oDestinationService.credentials.uri
                      \o "/destination-configuration/v1/destinations/"
                      \o sDestinationName,
              method |-> Undefined,
              headers |-> {<<"Authorization", "Bearer " \o sToken>>},
              form |-> NoForm,
              payload |-> Undefined]]

\* getDestinationCallback without the test of response.statusCode
getDestinationCallbackAnyStatus(resp) ==
    IF resp.error # NoError
    THEN Reject(resp.error)
    ELSE LET p == JSONParse(resp.data)
         IN  IF p.threw
             THEN Throw(SyntaxError("Unexpected token in JSON"))
             ELSE Resolve(p.value, TRUE)

getDestinationCallback(resp) ==
    IF resp.error # NoError
    THEN Reject(resp.error)
    ELSE IF resp.statusCode = 200
    THEN LET p == JSONParse(resp.data)
         IN  IF p.threw
             THEN Throw(SyntaxError("Unexpected token in JSON"))
             ELSE Resolve(p.value, TRUE)
    ELSE Reject(StringReason("Server responded with status code "
                             \o ToString(resp.statusCode)
                             \o " when requesting the destination from destination service"))

(***************************************************************************)
(* callDestination                                                         *)
(***************************************************************************)
\* isPostPutPatch written as `sMethod == POST || PUT || PATCH`
isPostPutPatchTruthy(sMethod) ==
    \/ sMethod = Prop(httpMethodsEnum, "POST")
    \/ Truthy(Prop(httpMethodsEnum, "PUT"))
    \/ Truthy(Prop(httpMethodsEnum, "PATCH"))

isPostPutPatch(sMethod) ==
    \/ sMethod = Prop(httpMethodsEnum, "POST")
    \/ sMethod = Prop(httpMethodsEnum, "PUT")
    \/ sMethod = Prop(httpMethodsEnum, "PATCH")

\* callDestination appending oParameters.url without the test `if (oParameters.url)`
callDestinationOptionsAlwaysAppend(oParameters) ==
    LET oDestination == oParameters.destination
    IN  IF IsNull(oDestination)
        THEN [threw |-> TRUE,
              error |-> TypeError("Cannot read property 'destinationConfiguration' of null")]
        ELSE IF ~hasOwnProperty(oDestination, "destinationConfiguration")
        THEN [threw |-> TRUE,
              error |-> TypeError("Cannot read property 'URL' of undefined")]
        ELSE
          LET base == Prop(oDestination.destinationConfiguration, "URL")
              hasToken == /\ hasOwnProperty(oDestination, "authTokens")
                          /\ Len(oDestination.authTokens) > 0
              oToken == oDestination.authTokens[1]
          IN  [threw |-> FALSE,
               options |->
                 [step |-> "proxied",
                  method |-> oParameters.httpMethod,
                  url |-> base \o oParameters.url,
                  headers |-> IF hasToken
                              THEN {<<"Authorization",
                                      Prop(oToken, "type") \o " " \o Prop(oToken, "value")>>}
                              ELSE NoHeaders,
                  form |-> NoForm,
                  payload |-> IF Truthy(oParameters.payload)
                                 /\ isPostPutPatch(oParameters.httpMethod)
                              THEN oParameters.payload
                              ELSE Undefined]]

\* the body of callDestination up to the call of request(...)
callDestinationOptions(oParameters) ==
    LET oDestination == oParameters.destination
    IN  IF IsNull(oDestination)
        THEN [threw |-> TRUE,
              error |-> TypeError("Cannot read property 'destinationConfiguration' of null")]
        ELSE IF ~hasOwnProperty(oDestination, "destinationConfiguration")
        THEN [threw |-> TRUE,
              error |-> TypeError("Cannot read property 'URL' of undefined")]
        ELSE
          LET base == Prop(oDestination.destinationConfiguration, "URL")
              hasToken == /\ hasOwnProperty(oDestination, "authTokens")
                          /\ Len(oDestination.authTokens) > 0
              oToken == oDestination.authTokens[1]
          IN  [threw |-> FALSE,
               options |->
                 [step |-> "proxied",
                  method |-> oParameters.httpMethod,
                  url |-> IF Truthy(oParameters.url)
                          THEN base \o oParameters.url
                          ELSE base,
                  headers |-> IF hasToken
                              THEN {<<"Authorization",
                                      Prop(oToken, "type") \o " " \o Prop(oToken, "value")>>}
                              ELSE NoHeaders,
                  form |-> NoForm,
                  payload |-> IF Truthy(oParameters.payload)
                                 /\ isPostPutPatch(oParameters.httpMethod)
                              THEN oParameters.payload
                              ELSE Undefined]]

\* callDestination's callback with the status test of the other two steps
callDestinationCallbackStatusChecked(resp) ==
    IF resp.error # NoError
    THEN Reject(resp.error)
    ELSE IF resp.statusCode = 200
    THEN Resolve(resp.data, FALSE)
    ELSE Reject(StringReason("Server responded with status code "
                             \o ToString(resp.statusCode)))

callDestinationCallback(resp) ==
    IF resp.error # NoError
    THEN Reject(resp.error)
    ELSE Resolve(resp.data, FALSE)

(***************************************************************************)
(* The body `request` sends for an options object: the urlencoded `form`   *)
(* when one is given.  The code sets no `body` or `json` key, and          *)
(* `payload` is not a key `request` reads.                                 *)
(***************************************************************************)
RECURSIVE FormEncode(_)
FormEncode(form) ==
    IF form = <<>>
    THEN ""
    ELSE form[1][1] \o "=" \o form[1][2]
         \o (IF Len(form) > 1 THEN "&" \o FormEncode(Tail(form)) ELSE "")

RequestBody(options) ==
    IF options.form # NoForm THEN FormEncode(options.form) ELSE Undefined

(***************************************************************************)
(* The state of one invocation of doItNow.                                 *)
(*   pc: idle (not called yet), awaitToken, awaitDestination, awaitCall    *)
(*       (a request is out and the chain waits for its callback),          *)
(*       resolved, rejected (the returned promise settled), threw (the     *)
(*       call raised), uncaught (a callback threw: the promise stays       *)
(*       pending for ever).                                                *)
(*   completion: how the call of doItNow itself ended.                     *)
(*   sent: the options of the requests issued, in order.                   *)
(*   tokenResp, destResp, callResp: what each callback was called with.    *)
(*   parsed: the steps whose body JSON.parse was applied to.               *)
(***************************************************************************)
NoOptions == [none |-> TRUE]

NoResponse == [none |-> TRUE]

NoDestination == [none |-> TRUE]

IdleInvocation ==
    [pc |-> "idle", completion |-> "none", opts |-> NoOptions, sent |-> <<>>,
     tokenResp |-> NoResponse, destResp |-> NoResponse, callResp |-> NoResponse,
     parsed |-> {}, sToken |-> Undefined, oDestination |-> NoDestination,
     value |-> Undefined, reason |-> NoReason]

\* the same throw in a function that is not async: the call itself raises
SyncThrow(r, e) ==
    [r EXCEPT !.completion = "threw", !.pc = "threw", !.reason = e]

\* a throw in the body of an async function: the call returns a rejected promise
AsyncThrow(r, e) ==
    [r EXCEPT !.completion = "promise", !.pc = "rejected", !.reason = e]

\* a promise of the chain rejects: no later then-callback runs
ChainRejected(r, e) == [r EXCEPT !.pc = "rejected", !.reason = e]

ChainResolved(r, v) == [r EXCEPT !.pc = "resolved", !.value = v]

\* an exception escapes a request callback: the promise is never settled
Uncaught(r, e) == [r EXCEPT !.pc = "uncaught", !.reason = e]

\* request(options, callback)
Issue(r, options, waiting) ==
    [r EXCEPT !.pc = waiting, !.sent = Append(@, options)]

InFlight(i, step) == [id |-> i, step |-> step]

\* the validation of doItNow without the test of destinationName
validateWithoutName(oOptions) ==
    IF ~hasOwnProperty(httpMethodsEnum.default, oOptions.httpMethod)
    THEN Error("Unknown HTTP method: " \o oOptions.httpMethod
               \o ". Allowed methods: " \o JSONStringifyEnum(httpMethodsEnum))
    ELSE IF ~Truthy(oOptions.destinationInstance)
    THEN Error("Invalid destination service instance")
    ELSE NoError

\* lines 15-25 of doItNow: the error thrown, or NoError
validate(oOptions) ==
    IF ~hasOwnProperty(httpMethodsEnum.default, oOptions.httpMethod)
    THEN Error("Unknown HTTP method: " \o oOptions.httpMethod
               \o ". Allowed methods: " \o JSONStringifyEnum(httpMethodsEnum))
    ELSE IF ~Truthy(oOptions.destinationInstance)
    THEN Error("Invalid destination service instance")
    ELSE IF ~Truthy(oOptions.destinationName)
    THEN Error("Invalid destination name")
    ELSE NoError

(***************************************************************************)
(* Actions.  A callback and the then-callbacks its resolve schedules run   *)
(* in one turn of the event loop (microtasks), so each is one step.        *)
(***************************************************************************)
doItNow(i, oOptions) ==
    /\ inv[i].pc = "idle"
    /\ LET called == [inv[i] EXCEPT !.opts = oOptions, !.completion = "promise"]
           e == validate(oOptions)
           t == getTokenOptions(oOptions.destinationInstance)
       IN  IF e # NoError
           THEN /\ inv' = [inv EXCEPT ![i] = AsyncThrow(called, e)]
                /\ UNCHANGED inflight
           ELSE IF t.threw
           THEN /\ inv' = [inv EXCEPT ![i] = ChainRejected(called, t.error)]
                /\ UNCHANGED inflight
           ELSE /\ inv' = [inv EXCEPT ![i] = Issue(called, t.options, "awaitToken")]
                /\ inflight' = inflight \cup {InFlight(i, "token")}
    /\ UNCHANGED httpMethodsEnum

TokenResponse(i, resp) ==
    /\ inv[i].pc = "awaitToken"
    /\ InFlight(i, "token") \in inflight
    /\ LET o == getTokenCallback(resp)
           r == [inv[i] EXCEPT !.tokenResp = resp,
                               !.parsed = IF o.parsed THEN @ \cup {"token"} ELSE @]
           d == getDestinationOptions(o.value, r.opts.destinationInstance,
                                      r.opts.destinationName)
       IN  IF o.kind = "reject"
           THEN /\ inv' = [inv EXCEPT ![i] = ChainRejected(r, o.reason)]
                /\ inflight' = inflight \ {InFlight(i, "token")}
           ELSE IF o.kind = "throw"
           THEN /\ inv' = [inv EXCEPT ![i] = Uncaught(r, o.reason)]
                /\ inflight' = inflight \ {InFlight(i, "token")}
           ELSE IF d.threw
           THEN /\ inv' = [inv EXCEPT ![i] =
                              ChainRejected([r EXCEPT !.sToken = o.value], d.error)]
                /\ inflight' = inflight \ {InFlight(i, "token")}
           ELSE /\ inv' = [inv EXCEPT ![i] =
                              Issue([r EXCEPT !.sToken = o.value], d.options,
                                    "awaitDestination")]
                /\ inflight' = (inflight \ {InFlight(i, "token")})
                                  \cup {InFlight(i, "destination")}
    /\ UNCHANGED httpMethodsEnum

DestinationResponse(i, resp) ==
    /\ inv[i].pc = "awaitDestination"
    /\ InFlight(i, "destination") \in inflight
    /\ LET o == getDestinationCallback(resp)
           r == [inv[i] EXCEPT !.destResp = resp,
                               !.parsed = IF o.parsed THEN @ \cup {"destination"} ELSE @]
           oParameters == [url |-> r.opts.url,
                           destination |-> o.value,
                           httpMethod |-> r.opts.httpMethod,
                           payload |-> r.opts.payload]
           c == callDestinationOptions(oParameters)
       IN  IF o.kind = "reject"
           THEN /\ inv' = [inv EXCEPT ![i] = ChainRejected(r, o.reason)]
                /\ inflight' = inflight \ {InFlight(i, "destination")}
           ELSE IF o.kind = "throw"
           THEN /\ inv' = [inv EXCEPT ![i] = Uncaught(r, o.reason)]
                /\ inflight' = inflight \ {InFlight(i, "destination")}
           ELSE IF c.threw
           THEN /\ inv' = [inv EXCEPT ![i] =
                              ChainRejected([r EXCEPT !.oDestination = o.value], c.error)]
                /\ inflight' = inflight \ {InFlight(i, "destination")}
           ELSE /\ inv' = [inv EXCEPT ![i] =
                              Issue([r EXCEPT !.oDestination = o.value], c.options,
                                    "awaitCall")]
                /\ inflight' = (inflight \ {InFlight(i, "destination")})
                                  \cup {InFlight(i, "proxied")}
    /\ UNCHANGED httpMethodsEnum

CallResponse(i, resp) ==
    /\ inv[i].pc = "awaitCall"
    /\ InFlight(i, "proxied") \in inflight
    /\ LET o == callDestinationCallback(resp)
           r == [inv[i] EXCEPT !.callResp = resp]
       IN  /\ inv' = [inv EXCEPT ![i] =
                         IF o.kind = "reject"
                         THEN ChainRejected(r, o.reason)
                         ELSE ChainResolved(r, o.value)]
           /\ inflight' = inflight \ {InFlight(i, "proxied")}
    /\ UNCHANGED httpMethodsEnum

(***************************************************************************)
(* Inputs: the options callers pass and the answers of the three           *)
(* endpoints.                                                              *)
(***************************************************************************)
TransportErrors ==
    {[type |-> "Error", message |-> "connect ECONNREFUSED", code |-> "ECONNREFUSED"],
     [type |-> "Error", message |-> "socket hang up", code |-> "ECONNRESET"]}

Failed(e) == [error |-> e, statusCode |-> 0, data |-> Undefined]

Answered(status, data) == [error |-> NoError, statusCode |-> status, data |-> data]

CallOptions ==
    [httpMethod : {"GET", "POST", "PUT", "PATCH", "DELETE", "HEAD", "OPTIONS",
                   "TRACE", "get", Undefined},
     destinationInstance : {"dest-svc", "unbound-svc", "", Undefined},
     destinationName : {"ERP", "", Undefined},
     url : {"/v1/items", "", Undefined},
     payload : {"{\"qty\":1}", Undefined}]

TokenResponses ==
    {Failed(e) : e \in TransportErrors}
    \cup {Answered(s, d) : s \in {200, 401, 500},
                          d \in {TokenBodyA, TokenBodyB, EmptyObjectBody, NullBody,
                                 NotJSONBody}}

DestinationResponses ==
    {Failed(e) : e \in TransportErrors}
    \cup {Answered(s, d) : s \in {200, 404, 500},
                          d \in {DestBodyAuth, DestBodyBasic, DestBodyNoAuth,
                                 DestBodyEmptyAuth, DestBodyNoURL, EmptyObjectBody,
                                 NullBody, NotJSONBody}}

CallResponses ==
    {Failed(e) : e \in TransportErrors}
    \cup {Answered(s, d) : s \in {200, 201, 404, 500}, d \in {"[]", "Internal Server Error"}}

\* the leaner inputs of the specification of concurrent invocations
ConcCallOptions ==
    {[httpMethod |-> "GET", destinationInstance |-> "dest-svc",
      destinationName |-> "ERP", url |-> "/v1/items", payload |-> Undefined],
     [httpMethod |-> "POST", destinationInstance |-> "dest-svc",
      destinationName |-> "CRM", url |-> Undefined, payload |-> "{\"qty\":1}"],
     [httpMethod |-> "GET", destinationInstance |-> "dest-svc",
      destinationName |-> "", url |-> "/v1/items", payload |-> Undefined]}

ConcTokenResponses ==
    {Failed(CHOOSE e \in TransportErrors : e.code = "ECONNREFUSED"),
     Answered(401, "Unauthorized"),
     Answered(200, TokenBodyA), Answered(200, TokenBodyB),
     Answered(200, NotJSONBody)}

ConcDestinationResponses ==
    {Answered(404, "Not Found"), Answered(200, DestBodyAuth), Answered(200, DestBodyBasic)}

ConcCallResponses ==
    {Failed(CHOOSE e \in TransportErrors : e.code = "ECONNRESET"),
     Answered(200, "[]"), Answered(500, "Internal Server Error")}

(***************************************************************************)
(* Spec: one invocation, every input.  SpecConc: NumInv invocations whose  *)
(* callbacks interleave in every order.                                    *)
(***************************************************************************)
Init ==
    /\ httpMethodsEnum \in EnumModules
    /\ inv = [i \in {1} |-> IdleInvocation]
    /\ inflight = {}

Next ==
    \/ \E i \in DOMAIN inv, oOptions \in CallOptions : doItNow(i, oOptions)
    \/ \E i \in DOMAIN inv, resp \in TokenResponses : TokenResponse(i, resp)
    \/ \E i \in DOMAIN inv, resp \in DestinationResponses : DestinationResponse(i, resp)
    \/ \E i \in DOMAIN inv, resp \in CallResponses : CallResponse(i, resp)

Spec == Init /\ [][Next]_vars

InitConc ==
    /\ httpMethodsEnum \in EnumModules
    /\ inv = [i \in 1..NumInv |-> IdleInvocation]
    /\ inflight = {}

NextConc ==
    \/ \E i \in DOMAIN inv, oOptions \in ConcCallOptions : doItNow(i, oOptions)
    \/ \E i \in DOMAIN inv, resp \in ConcTokenResponses : TokenResponse(i, resp)
    \/ \E i \in DOMAIN inv, resp \in ConcDestinationResponses : DestinationResponse(i, resp)
    \/ \E i \in DOMAIN inv, resp \in ConcCallResponses : CallResponse(i, resp)

SpecConc == InitConc /\ [][NextConc]_vars

(***************************************************************************)
(* What the properties below are stated with.  These restate the           *)
(* documented contract, not the code: the methods the contract allows, the *)
(* fields of the bodies the endpoints returned.                            *)
(***************************************************************************)
Started(i) == inv[i].pc # "idle"

AllowedMethods == {"GET", "POST", "PUT", "PATCH", "DELETE", "HEAD", "OPTIONS"}

Falsy(s) == s \in {"", Undefined}

InvalidOptions(o) ==
    \/ o.httpMethod \notin AllowedMethods
    \/ Falsy(o.destinationInstance)
    \/ Falsy(o.destinationName)

IsValidationError(e, o) ==
    /\ e.type = "Error"
    /\ \/ e.message = "Invalid destination service instance"
       \/ e.message = "Invalid destination name"
       \/ \E m \in EnumModules :
             e.message = "Unknown HTTP method: " \o o.httpMethod
                         \o ". Allowed methods: " \o JSONStringifyEnum(m)

NoneInFlight(i) == \A f \in inflight : f.id # i

\* the access_token field of a token body ("undefined" when it has none)
AccessTokenOf(data) ==
    CASE data = TokenBodyA -> "tok123"
      [] data = TokenBodyB -> "tokXYZ"
      [] OTHER -> "undefined"

\* destinationConfiguration.URL of a destination body
BaseURLOf(data) ==
    CASE data = DestBodyBasic -> "https://erp.example.com"
      [] data \in {DestBodyAuth, DestBodyNoAuth, DestBodyEmptyAuth} -> "https://api.example.com"
      [] OTHER -> "undefined"

\* the Authorization headers authTokens[0] of a destination body stands for
AuthHeadersOf(data) ==
    CASE data \in {DestBodyAuth, DestBodyNoURL} -> {<<"Authorization", "Bearer abc">>}
      [] data = DestBodyBasic -> {<<"Authorization", "Basic dXNlcjpwdw==">>}
      [] OTHER -> {}

AnsweredNot200(resp) ==
    resp # NoResponse /\ resp.error = NoError /\ resp.statusCode # 200

Answered200(resp) ==
    resp # NoResponse /\ resp.error = NoError /\ resp.statusCode = 200

TransportFailed(resp) == resp # NoResponse /\ resp.error # NoError

\* msg contains the decimal form of status
ContainsStatus(msg, status) ==
    \E pre \in {"", "Server responded with status code "},
       suf \in {"", " when requesting the JWT token",
                " when requesting the destination from destination service"} :
        msg = pre \o ToString(status) \o suf

PathOf(o) == IF Falsy(o.url) THEN "" ELSE o.url

(***************************************************************************)
(* C1: an invocation whose httpMethod is not one of the seven allowed      *)
(* methods, or whose destinationInstance or destinationName is falsy,      *)
(* fails with a validation error and never issues a request.               *)
(***************************************************************************)
C1_InvalidOptionsFailWithoutRequest ==
    \A i \in DOMAIN inv :
        (Started(i) /\ InvalidOptions(inv[i].opts)) =>
            /\ inv[i].pc \in {"rejected", "threw"}
            /\ IsValidationError(inv[i].reason, inv[i].opts)
            /\ inv[i].sent = <<>>
            /\ NoneInFlight(i)

C1_Witness ==
    \E i \in DOMAIN inv :
        /\ inv[i].opts # NoOptions
        /\ inv[i].opts.httpMethod = "TRACE"
        /\ inv[i].opts.destinationInstance = "dest-svc"
        /\ inv[i].opts.destinationName = "ERP"
        /\ inv[i].pc = "rejected"
        /\ inv[i].sent = <<>>

(***************************************************************************)
(* C2: the three requests of an invocation are issued one after the other, *)
(* never two in flight together: the destination request only after the    *)
(* token request was answered 200, carrying Bearer <access_token> of that  *)
(* answer; the proxied request only after the destination request was      *)
(* answered 200, built from the destination of that answer; the invocation *)
(* resolves with the proxied call's result.                                *)
(***************************************************************************)
C2_StrictlySequential ==
    \A i \in DOMAIN inv :
        LET r == inv[i]
        IN  /\ Cardinality({f \in inflight : f.id = i}) <= 1
            /\ Len(r.sent) <= 3
            /\ \A k \in 1..Len(r.sent) :
                   r.sent[k].step = <<"token", "destination", "proxied">>[k]
            /\ (Started(i) /\ ~InvalidOptions(r.opts)
                  /\ r.opts.destinationInstance \in DOMAIN VcapServices)
                 => Len(r.sent) >= 1
            /\ Len(r.sent) >= 2 =>
                 /\ Answered200(r.tokenResp)
                 /\ r.sent[2].headers =
                       {<<"Authorization", "Bearer " \o AccessTokenOf(r.tokenResp.data)>>}
            /\ Len(r.sent) = 3 =>
                 /\ Answered200(r.destResp)
                 /\ r.oDestination = JSONParse(r.destResp.data).value
                 /\ r.sent[3].url = BaseURLOf(r.destResp.data) \o PathOf(r.opts)
            /\ r.pc = "resolved" =>
                 /\ Len(r.sent) = 3
                 /\ r.callResp # NoResponse
                 /\ r.value = r.callResp.data

C2_Witness ==
    \E i \in DOMAIN inv :
        /\ inv[i].pc = "resolved"
        /\ Len(inv[i].sent) = 3
        /\ inv[i].tokenResp = Answered(200, TokenBodyA)
        /\ <<"Authorization", "Bearer tok123">> \in inv[i].sent[2].headers
        /\ inv[i].value = "[]"

(***************************************************************************)
(* C3: when the token or the destination request fails, the invocation     *)
(* rejects with that reason and stops: a transport error is passed on as   *)
(* it is, a status other than 200 gives a string holding the status code   *)
(* and the body is not parsed; the request is not repeated and no later    *)
(* request is issued.                                                      *)
(***************************************************************************)
C3_FailedStepRejectsAndStops ==
    \A i \in DOMAIN inv :
        LET r == inv[i]
        IN  /\ TransportFailed(r.tokenResp) =>
                 /\ r.pc = "rejected" /\ r.reason = r.tokenResp.error
                 /\ Len(r.sent) = 1 /\ NoneInFlight(i)
            /\ AnsweredNot200(r.tokenResp) =>
                 /\ r.pc = "rejected" /\ r.reason.type = "string"
                 /\ ContainsStatus(r.reason.message, r.tokenResp.statusCode)
                 /\ "token" \notin r.parsed
                 /\ Len(r.sent) = 1 /\ NoneInFlight(i)
            /\ TransportFailed(r.destResp) =>
                 /\ r.pc = "rejected" /\ r.reason = r.destResp.error
                 /\ Len(r.sent) = 2 /\ NoneInFlight(i)
            /\ AnsweredNot200(r.destResp) =>
                 /\ r.pc = "rejected" /\ r.reason.type = "string"
                 /\ ContainsStatus(r.reason.message, r.destResp.statusCode)
                 /\ "destination" \notin r.parsed
                 /\ Len(r.sent) = 2 /\ NoneInFlight(i)

C3_Witness ==
    \E i \in DOMAIN inv :
        /\ inv[i].destResp = Answered(404, DestBodyAuth)
        /\ inv[i].pc = "rejected"
        /\ inv[i].reason =
              StringReason("Server responded with status code 404 when requesting the destination from destination service")

(***************************************************************************)
(* C4: the proxied call does not look at the status: once its request is   *)
(* answered, whatever the status, the invocation resolves with the raw     *)
(* body; it rejects only when the request fails with a transport error.    *)
(* The token and destination steps, unlike it, reject on every status      *)
(* other than 200.                                                         *)
(***************************************************************************)
C4_ProxiedStatusNotInspected ==
    \A i \in DOMAIN inv :
        LET r == inv[i]
        IN  /\ (r.callResp # NoResponse /\ r.callResp.error = NoError) =>
                 r.pc = "resolved" /\ r.value = r.callResp.data
            /\ TransportFailed(r.callResp) =>
                 r.pc = "rejected" /\ r.reason = r.callResp.error
            /\ (r.pc = "rejected" /\ Len(r.sent) = 3) => TransportFailed(r.callResp)
            /\ (AnsweredNot200(r.tokenResp) \/ AnsweredNot200(r.destResp)) =>
                 r.pc = "rejected"

C4_Witness ==
    \E i \in DOMAIN inv :
        /\ inv[i].callResp = Answered(500, "Internal Server Error")
        /\ inv[i].pc = "resolved"
        /\ inv[i].value = "Internal Server Error"

(***************************************************************************)
(* C5: when httpMethod is POST, PUT or PATCH and a payload is given, the   *)
(* payload is the body of the proxied request that is sent.                *)
(***************************************************************************)
C5_PayloadSentAsBody ==
    \A i \in DOMAIN inv :
        (/\ Len(inv[i].sent) = 3
         /\ inv[i].opts.httpMethod \in {"POST", "PUT", "PATCH"}
         /\ inv[i].opts.payload # Undefined) =>
            RequestBody(inv[i].sent[3]) = inv[i].opts.payload

(***************************************************************************)
(* C6: when httpMethod is not POST, PUT or PATCH, the proxied request      *)
(* carries no payload and no body, whatever payload was given.             *)
(***************************************************************************)
C6_NoPayloadForOtherMethods ==
    \A i \in DOMAIN inv :
        (/\ Len(inv[i].sent) = 3
         /\ inv[i].opts.httpMethod \notin {"POST", "PUT", "PATCH"}) =>
            /\ inv[i].sent[3].payload = Undefined
            /\ RequestBody(inv[i].sent[3]) = Undefined

C6_Witness ==
    \E i \in DOMAIN inv :
        /\ Len(inv[i].sent) = 3
        /\ inv[i].opts.httpMethod = "GET"
        /\ inv[i].opts.payload = "{\"qty\":1}"
        /\ httpMethodsEnum = EnumModuleWithMembers
        /\ inv[i].sent[3].payload = Undefined

(***************************************************************************)
(* C7: every invocation whose requests have all completed is settled:      *)
(* whatever the status and the body of a response, the step ends resolved  *)
(* or rejected and the failure reaches the caller as a rejection.          *)
(***************************************************************************)
C7_CompletedRequestsSettle ==
    \A i \in DOMAIN inv :
        (Len(inv[i].sent) > 0 /\ NoneInFlight(i)) =>
            inv[i].pc \in {"resolved", "rejected"}

C9_ProxiedRequestShape ==
    \A i \in DOMAIN inv :
        Len(inv[i].sent) = 3 =>
            LET r == inv[i]
                q == r.sent[3]
            IN  /\ q.url = BaseURLOf(r.destResp.data) \o PathOf(r.opts)
                /\ q.method = r.opts.httpMethod
                /\ q.headers = AuthHeadersOf(r.destResp.data)
                /\ \A h \in q.headers : h[2] # "Bearer " \o r.sToken

C9_Witness ==
    \E i \in DOMAIN inv :
        /\ Len(inv[i].sent) = 3
        /\ inv[i].destResp = Answered(200, DestBodyAuth)
        /\ inv[i].opts.url = "/v1/items"
        /\ inv[i].sent[3].url = "https://api.example.com/v1/items"
        /\ inv[i].sent[3].headers = {<<"Authorization", "Bearer abc">>}

(***************************************************************************)
(* C10 as stated: a validation error is thrown synchronously, the call of  *)
(* doItNow itself raising it.                                              *)
(***************************************************************************)
C10_ThrownSynchronously ==
    \A i \in DOMAIN inv :
        (Started(i) /\ InvalidOptions(inv[i].opts)) => inv[i].completion = "threw"

(***************************************************************************)
(* C10 as amended: on a validation error the call of doItNow does not      *)
(* raise; it returns a promise that is rejected with the validation Error, *)
(* and no request has been issued.                                         *)
(***************************************************************************)
C10_ReturnsRejectedPromise ==
    \A i \in DOMAIN inv :
        (Started(i) /\ InvalidOptions(inv[i].opts)) =>
            /\ inv[i].completion = "promise"
            /\ inv[i].pc = "rejected"
            /\ inv[i].reason.type = "Error"
            /\ inv[i].sent = <<>>

C10_Witness ==
    \E i \in DOMAIN inv :
        /\ inv[i].opts # NoOptions
        /\ inv[i].opts.httpMethod = "GET"
        /\ inv[i].opts.destinationInstance = "dest-svc"
        /\ inv[i].opts.destinationName = ""
        /\ inv[i].completion = "promise"
        /\ inv[i].pc = "rejected"
        /\ inv[i].reason = Error("Invalid destination name")

====
